---- MODULE Spec2Model ----
(***************************************************************************)
(* State-machine model of train.py: the SRCNN training script.  One run    *)
(* of the script is one behaviour: set-up (lines 53-106), then the epoch   *)
(* loop (lines 108-160) with its training pass, evaluation pass and        *)
(* checkpoint policy.                                                      *)
(*                                                                         *)
(* Abstractions.  Tensors are not modelled.  Model Parameters are a        *)
(* version number that every executed optimizer.step() advances.  Losses   *)
(* and the finiteness of the gradients are inputs (they depend on the      *)
(* data), drawn from small sets.  Training losses are integers in units of *)
(* 0.01.  A validation loss is 0, +inf, NaN or 10^(-mb/1000), so that its  *)
(* PSNR 10*log10(1/loss) is mb/100 dB, an integer number of centi-dB.      *)
(* The loss scale of torch.cuda.amp.GradScaler is a float32 power of two,  *)
(* kept as its exponent, with float32's underflow to 0 and overflow to     *)
(* +inf.  The library calls behave as in the torch releases that ship      *)
(* torch.cuda.amp (1.6 and later 1.x); where these releases differ, the    *)
(* model takes either behaviour.                                           *)
(*                                                                         *)
(* Spec is the script under every configuration.  SpecLoss is the script   *)
(* with longer training passes.  SpecScale is the GradScaler of a run of   *)
(* any length.                                                             *)
(***************************************************************************)
EXTENDS Integers, Sequences, FiniteSets, TLC

(* ------------------------------ bounds --------------------------------- *)
MaxEpochs == 2
MaxTrainBatches == 2
MaxValBatches == 1
MaxLossBatches == 4

(* ------------------------- program constants --------------------------- *)
\* GradScaler() defaults (line 106): init_scale = 2.**16, growth_interval = 2000,
\* growth_factor = 2.0 and backoff_factor = 0.5 (one binary exponent each way).
InitScaleExp == 16
GrowthInterval == 2000
\* float32: the largest finite power of two is 2^127, the smallest positive
\* (subnormal) value is 2^-149, and 1/scale overflows float32 below 2^-127.
Float32MaxExp == 127
Float32MinExp == 0 - 149
Float32MinInvertibleExp == 0 - 127

\* training losses an iteration can produce, in units of 0.01
TrainLossValues == {4, 6, 8, 10}
\* PSNR levels of the finite validation losses, in centi-dB (mb of the loss)
PsnrLevels == {0 - 1000, 2800, 2910}

(* ------------------------------ floats --------------------------------- *)
\* a Python float that may be NaN
Num(v) == [nan |-> FALSE, v |-> v]
NaN == [nan |-> TRUE, v |-> 0]
\* x + y
FAdd(x, y) == IF x.nan \/ y.nan THEN NaN ELSE Num(x.v + y.v)
\* x > y : every comparison with NaN is False
FGt(x, y) == ~x.nan /\ ~y.nan /\ x.v > y.v

\* the mean of n values whose sum is the float x, as a fraction
Mean(x, n) == [nan |-> x.nan, num |-> x.v, den |-> n]
\* a > b for two means
MeanGt(a, b) == ~a.nan /\ ~b.nan /\ a.num * b.den > b.num * a.den
\* does the mean a score higher than the highest mean b so far
Beats(a, b) == ~a.nan /\ (b.nan \/ MeanGt(a, b))

\* a validation loss value (loss.item() at line 151)
FiniteLoss(mb) == [kind |-> "finite", mb |-> mb]
ZeroLoss == [kind |-> "zero", mb |-> 0]
InfLoss == [kind |-> "inf", mb |-> 0]
NaNLoss == [kind |-> "nan", mb |-> 0]
ValLossValues == {ZeroLoss, InfLoss, NaNLoss} \cup {FiniteLoss(m) : m \in PsnrLevels}

\* psnr = 10 * math.log10(1 / loss.item()), line 151.  1 / 0.0 raises
\* ZeroDivisionError; 1 / inf is 0.0 and math.log10(0.0) raises ValueError;
\* NaN propagates.
PsnrRaises(l) ==
    CASE l.kind = "zero" -> "ZeroDivisionError"
      [] l.kind = "inf" -> "ValueError"
      [] OTHER -> "none"
Psnr(l) == IF l.kind = "nan" THEN NaN ELSE Num(l.mb)

\* sum of a sequence of integers
RECURSIVE SumSeq(_)
SumSeq(s) == IF s = <<>> THEN 0 ELSE Head(s) + SumSeq(Tail(s))

\* f"{epoch_loss / len(train_dataloader):.6f}", line 141: the quotient of a sum
\* in units of 0.01 by n, printed with six decimals (units of 0.000001)
FormatLoss(sum, n) == (2 * 10000 * sum + n) \div (2 * n)

(* --------------------------- the loss scale ---------------------------- *)
\* scaler._scale: None until the first scale() call, then a float32 value
NoScale == [kind |-> "none", e |-> 0]
Pow2(e) == [kind |-> "pow2", e |-> e]
ZeroScale == [kind |-> "zero", e |-> 0]
InfScale == [kind |-> "inf", e |-> 0]

\* scaler.get_scale(): the Loss Scale in force
GetScale(sc) ==
    IF ~sc.enabled THEN Pow2(0)
    ELSE IF sc.scale.kind = "none" THEN Pow2(InitScaleExp)
    ELSE sc.scale

\* order of float32 scale values: a < b
ScaleLt(a, b) ==
    \/ a.kind = "zero" /\ b.kind \in {"pow2", "inf"}
    \/ a.kind = "pow2" /\ b.kind = "inf"
    \/ a.kind = "pow2" /\ b.kind = "pow2" /\ a.e < b.e
ScalePositive(a) == a.kind \in {"pow2", "inf"}
ScaleFinite(a) == a.kind \in {"pow2", "zero"}

\* scale * backoff_factor in float32: below 2^-149 the product rounds to 0
Backoff(s) ==
    CASE s.kind = "pow2" -> IF s.e - 1 < Float32MinExp THEN ZeroScale ELSE Pow2(s.e - 1)
      [] OTHER -> s

\* scale * growth_factor in float32: the set of outcomes.  Above 2^127 the
\* product is +inf; releases that guard the growth keep the old scale instead.
Growth(s) ==
    CASE s.kind = "pow2" -> IF s.e + 1 > Float32MaxExp THEN {InfScale, s} ELSE {Pow2(s.e + 1)}
      [] OTHER -> {s}

\* unscale_ multiplies the gradients by 1/scale computed in float32: with a
\* zero, infinite or too small scale every unscaled gradient is inf or NaN
UnscaleOverflows(s) ==
    \/ s.kind \in {"zero", "inf"}
    \/ s.kind = "pow2" /\ s.e < Float32MinInvertibleExp

\* torch._amp_update_scale_ as called by scaler.update(): the possible
\* (scale, growth_tracker) after an iteration whose step found_inf or not
AmpUpdateScale(s, tracker, found_inf) ==
    IF found_inf
    THEN {[scale |-> Backoff(s), growth_tracker |-> 0]}
    ELSE IF tracker + 1 = GrowthInterval
         THEN {[scale |-> g, growth_tracker |-> 0] : g \in Growth(s)}
         ELSE {[scale |-> s, growth_tracker |-> tracker + 1]}

(* ------------------------------- state --------------------------------- *)
VARIABLES
    args,           \* the parsed command line: epochs, batch_size, cuda
    cuda_available, \* torch.cuda.is_available()
    len_train,      \* len(train_dataloader)
    len_val,        \* len(val_dataloader)
    pc,             \* position of the script
    error,          \* the exception that ended the run, or "none"
    epoch,          \* index of the epoch being run = number of completed epochs
    iteration,      \* training batches consumed in this epoch
    epoch_loss,     \* the epoch loss accumulator (units of 0.01)
    loss,           \* the training loss held by the name loss (0 when it
                    \* holds none: at start, and once line 150 has rebound it)
    grad,           \* the parameters' .grad: "none", "zero", "finite", "nonfinite"
    params,         \* Model Parameters (version)
    adam_step,      \* optimizer state: Adam's step count
    scaler,         \* the GradScaler: enabled, scale, growth_tracker, found_inf
    best_psnr,      \* Best Metric
    avg_psnr,       \* validation metric accumulator (centi-dB)
    val_idx,        \* validation batches consumed in this epoch
    files,          \* weights/model_{e}.pth : e -> the parameters it holds
    best_file,      \* weights/srcnn_X{scale_factor}.pth : parameters, or NoFile
    reported_loss,  \* the mean training loss printed in this epoch (units of
                    \* 0.000001; 0 while this epoch has printed none)
    \* history variables
    train_losses,   \* the losses of the iterations of the latest training
                    \* pass, in order, kept until the evaluation pass begins
    top_metric,     \* the highest mean validation metric of the completed epochs
    top_epoch,      \* the earliest completed epoch that scored top_metric
    best_writes,    \* number of writes of weights/srcnn_X{scale_factor}.pth
    file_writes,    \* e -> number of writes of weights/model_{e}.pth
    calls           \* per epoch: number of calls of each step of an iteration

config == <<args, cuda_available, len_train, len_val>>
train_vars == <<iteration, epoch_loss, loss, grad, params, adam_step, scaler>>
eval_vars == <<avg_psnr, val_idx>>
ckpt_vars == <<best_psnr, files, best_file>>
hist_vars == <<train_losses, top_metric, top_epoch, best_writes, file_writes, calls>>
vars == <<config, pc, error, epoch, train_vars, eval_vars, ckpt_vars,
          reported_loss, hist_vars>>

NoFile == 0 - 1
NoCalls == [zero_grad |-> 0, forward |-> 0, backward |-> 0, step |-> 0,
            update |-> 0, accumulate |-> 0]
EmptyDir == [e \in {} |-> 0]
NewScaler(enabled) ==
    [enabled |-> enabled, scale |-> NoScale, growth_tracker |-> 0, found_inf |-> FALSE]

\* a configuration, and everything the script has not yet touched
Blank(a, avail, ntrain, nval) ==
    /\ args = a
    /\ cuda_available = avail
    /\ len_train = ntrain
    /\ len_val = nval
    /\ error = "none"
    /\ epoch = 0
    /\ iteration = 0
    /\ epoch_loss = 0
    /\ loss = 0
    /\ grad = "none"
    /\ params = 0
    /\ adam_step = 0
    /\ avg_psnr = Num(0)
    /\ val_idx = 0
    /\ files = EmptyDir
    /\ best_file = NoFile
    /\ reported_loss = 0
    /\ train_losses = <<>>
    /\ top_metric = Mean(NaN, 1)
    /\ top_epoch = NoFile
    /\ best_writes = 0
    /\ file_writes = EmptyDir
    /\ calls = NoCalls

\* the state at process start, before line 53, for a given configuration;
\* the scaler and best_psnr do not exist yet
Start(a, avail, ntrain, nval) ==
    /\ Blank(a, avail, ntrain, nval)
    /\ pc = "start"
    /\ scaler = NewScaler(FALSE)
    /\ best_psnr = NaN

\* every configuration: valid and invalid epoch counts and batch sizes, every
\* combination of --cuda and CUDA availability, empty and non-empty splits
Init ==
    \E ep \in (0 - 1)..MaxEpochs, bs \in {0, 64}, cu \in BOOLEAN, avail \in BOOLEAN,
       ntrain \in 0..MaxTrainBatches, nval \in 0..MaxValBatches :
        Start([epochs |-> ep, batch_size |-> bs, cuda |-> cu], avail, ntrain, nval)

(* ------------------------------ actions -------------------------------- *)
\* an uncaught exception ends the process
Raise(err) ==
    /\ pc' = "crashed"
    /\ error' = err

\* lines 53-106: parse the arguments, build the loaders, the model, the
\* optimizer, best_psnr and the GradScaler.  argparse accepts any int for
\* --epochs and --batch-size.  DataLoader raises ValueError for a batch size
\* <= 0 (line 78); RandomSampler of an empty train set raises ValueError in
\* the releases that check it (line 78); SRCNN().to("cuda:0") raises without
\* CUDA (line 89).  GradScaler() disables itself when CUDA is not available.
Setup ==
    /\ pc = "start"
    /\ \/ /\ args.batch_size <= 0
          /\ Raise("ValueError")
          /\ UNCHANGED <<best_psnr, scaler>>
       \/ /\ args.batch_size > 0
          /\ len_train = 0
          /\ Raise("ValueError")
          /\ UNCHANGED <<best_psnr, scaler>>
       \/ /\ args.batch_size > 0
          /\ args.cuda /\ ~cuda_available
          /\ Raise("CudaError")
          /\ UNCHANGED <<best_psnr, scaler>>
       \/ /\ args.batch_size > 0
          /\ ~(args.cuda /\ ~cuda_available)
          /\ best_psnr' = Num(0)
          /\ scaler' = NewScaler(cuda_available)
          /\ pc' = "epoch_head"
          /\ UNCHANGED error
    /\ UNCHANGED <<config, epoch, iteration, epoch_loss, loss, grad, params,
                   adam_step, eval_vars, files, best_file, reported_loss, hist_vars>>

\* a faulty EpochHead: line 111 moved out of the loop, so that the accumulator
\* is not reset when an epoch starts
EpochHeadNoReset ==
    /\ pc = "epoch_head"
    /\ \/ /\ epoch < args.epochs
          /\ iteration' = 0
          /\ train_losses' = <<>>
          /\ calls' = NoCalls
          /\ reported_loss' = 0
          /\ pc' = "train_fetch"
       \/ /\ epoch >= args.epochs
          /\ pc' = "done"
          /\ UNCHANGED <<iteration, train_losses, calls, reported_loss>>
    /\ UNCHANGED <<config, error, epoch, epoch_loss, loss, grad, params, adam_step,
                   scaler, eval_vars, ckpt_vars, top_metric, top_epoch, best_writes,
                   file_writes>>

\* line 108, for epoch in range(args.epochs), and line 111, epoch_loss = 0
EpochHead ==
    /\ pc = "epoch_head"
    /\ \/ /\ epoch < args.epochs
          /\ epoch_loss' = 0
          /\ iteration' = 0
          /\ train_losses' = <<>>
          /\ calls' = NoCalls
          /\ reported_loss' = 0
          /\ pc' = "train_fetch"
       \/ /\ epoch >= args.epochs
          /\ pc' = "done"
          /\ UNCHANGED <<epoch_loss, iteration, train_losses, calls, reported_loss>>
    /\ UNCHANGED <<config, error, epoch, loss, grad, params, adam_step, scaler,
                   eval_vars, ckpt_vars, top_metric, top_epoch, best_writes,
                   file_writes>>

\* line 112: the next batch of train_dataloader, or the end of the pass
TrainFetch ==
    /\ pc = "train_fetch"
    /\ pc' = IF iteration < len_train THEN "zero_grad" ELSE "report_loss"
    /\ UNCHANGED <<config, error, epoch, train_vars, eval_vars, ckpt_vars,
                   reported_loss, hist_vars>>

\* a faulty ZeroGrad: line 114 without effect, the gradients are not cleared
ZeroGradMissing ==
    /\ pc = "zero_grad"
    /\ calls' = [calls EXCEPT !.zero_grad = @ + 1]
    /\ pc' = "forward"
    /\ UNCHANGED <<config, error, epoch, iteration, epoch_loss, loss, grad, params,
                   adam_step, scaler, eval_vars, ckpt_vars, reported_loss,
                   train_losses, top_metric, top_epoch, best_writes, file_writes>>

\* line 114: optimizer.zero_grad()
ZeroGrad ==
    /\ pc = "zero_grad"
    /\ grad' = "zero"
    /\ calls' = [calls EXCEPT !.zero_grad = @ + 1]
    /\ pc' = "forward"
    /\ UNCHANGED <<config, error, epoch, iteration, epoch_loss, loss, params,
                   adam_step, scaler, eval_vars, ckpt_vars, reported_loss,
                   train_losses, top_metric, top_epoch, best_writes,
                   file_writes>>

\* lines 117-119: the forward pass and the loss under autocast
Forward ==
    /\ pc = "forward"
    /\ \E l \in TrainLossValues : loss' = l
    /\ calls' = [calls EXCEPT !.forward = @ + 1]
    /\ pc' = "backward"
    /\ UNCHANGED <<config, error, epoch, iteration, epoch_loss, grad, params,
                   adam_step, scaler, eval_vars, ckpt_vars, reported_loss,
                   train_losses, top_metric, top_epoch, best_writes,
                   file_writes>>

\* line 126: scaler.scale(loss).backward().  An enabled scaler asserts that the
\* loss is a CUDA tensor; its first call creates the scale.  The gradients
\* that backward() leaves are finite or not.
Backward ==
    /\ pc = "backward"
    /\ \/ /\ scaler.enabled /\ ~args.cuda
          /\ Raise("AssertionError")
          /\ UNCHANGED <<grad, scaler, calls>>
       \/ /\ ~(scaler.enabled /\ ~args.cuda)
          /\ scaler' = IF scaler.enabled /\ scaler.scale.kind = "none"
                       THEN [scaler EXCEPT !.scale = Pow2(InitScaleExp)]
                       ELSE scaler
          /\ \E g \in {"finite", "nonfinite"} : grad' = g
          /\ calls' = [calls EXCEPT !.backward = @ + 1]
          /\ pc' = "step"
          /\ UNCHANGED error
    /\ UNCHANGED <<config, epoch, iteration, epoch_loss, loss, params, adam_step,
                   eval_vars, ckpt_vars, reported_loss, train_losses, top_metric,
                   top_epoch, best_writes, file_writes>>

\* what scaler.step records after unscaling: were infs or NaNs found
FoundInf(sc, g) == g = "nonfinite" \/ UnscaleOverflows(sc.scale)

\* does scaler.step(optimizer) call optimizer.step(): always when the scaler
\* is disabled, otherwise only when no inf or NaN was found
StepApplied(sc, g) == ~sc.enabled \/ ~FoundInf(sc, g)

\* line 133: scaler.step(optimizer)
Step ==
    /\ pc = "step"
    /\ IF StepApplied(scaler, grad)
       THEN params' = params + 1 /\ adam_step' = adam_step + 1
       ELSE UNCHANGED <<params, adam_step>>
    /\ scaler' = IF scaler.enabled
                 THEN [scaler EXCEPT !.found_inf = FoundInf(scaler, grad)]
                 ELSE scaler
    /\ calls' = [calls EXCEPT !.step = @ + 1]
    /\ pc' = "update"
    /\ UNCHANGED <<config, error, epoch, iteration, epoch_loss, loss, grad,
                   eval_vars, ckpt_vars, reported_loss, train_losses, top_metric,
                   top_epoch, best_writes, file_writes>>

\* scaler.update(): the possible scalers afterwards
ScalerUpdate(sc) ==
    IF ~sc.enabled THEN {sc}
    ELSE {[sc EXCEPT !.scale = u.scale, !.growth_tracker = u.growth_tracker,
                     !.found_inf = FALSE] :
            u \in AmpUpdateScale(sc.scale, sc.growth_tracker, sc.found_inf)}

\* line 136: scaler.update()
Update ==
    /\ pc = "update"
    /\ scaler' \in ScalerUpdate(scaler)
    /\ calls' = [calls EXCEPT !.update = @ + 1]
    /\ pc' = "accumulate"
    /\ UNCHANGED <<config, error, epoch, iteration, epoch_loss, loss, grad, params,
                   adam_step, eval_vars, ckpt_vars, reported_loss, train_losses,
                   top_metric, top_epoch, best_writes,
                   file_writes>>

\* line 138: epoch_loss += loss.item(); then the next turn of the for loop
Accumulate ==
    /\ pc = "accumulate"
    /\ epoch_loss' = epoch_loss + loss
    /\ train_losses' = Append(train_losses, loss)
    /\ iteration' = iteration + 1
    /\ calls' = [calls EXCEPT !.accumulate = @ + 1]
    /\ pc' = "train_fetch"
    /\ UNCHANGED <<config, error, epoch, loss, grad, params, adam_step, scaler,
                   eval_vars, ckpt_vars, reported_loss, top_metric, top_epoch,
                   best_writes, file_writes>>

\* lines 140-144: print the mean training loss (a division by
\* len(train_dataloader)), then avg_psnr = 0
ReportLoss ==
    /\ pc = "report_loss"
    /\ \/ /\ len_train = 0
          /\ Raise("ZeroDivisionError")
          /\ UNCHANGED <<reported_loss, avg_psnr, val_idx>>
       \/ /\ len_train > 0
          /\ reported_loss' = FormatLoss(epoch_loss, len_train)
          /\ avg_psnr' = Num(0)
          /\ val_idx' = 0
          /\ pc' = "val"
          /\ UNCHANGED error
    /\ UNCHANGED <<config, epoch, train_vars, ckpt_vars, hist_vars>>

\* a faulty ValBatch: the validation batch also steps the optimizer
ValBatchSteps ==
    /\ pc = "val"
    /\ val_idx < len_val
    /\ loss' = 0
    /\ train_losses' = <<>>
    /\ params' = params + 1
    /\ adam_step' = adam_step + 1
    /\ \E l \in ValLossValues :
        \/ /\ PsnrRaises(l) # "none"
           /\ Raise(PsnrRaises(l))
           /\ UNCHANGED <<avg_psnr, val_idx>>
        \/ /\ PsnrRaises(l) = "none"
           /\ avg_psnr' = FAdd(avg_psnr, Psnr(l))
           /\ val_idx' = val_idx + 1
           /\ UNCHANGED <<pc, error>>
    /\ UNCHANGED <<config, epoch, iteration, epoch_loss, grad, scaler, ckpt_vars,
                   reported_loss, top_metric, top_epoch, best_writes, file_writes,
                   calls>>

\* lines 146-152: one validation batch under torch.no_grad(); line 150
\* rebinds the name loss to the validation loss l
ValBatch ==
    /\ pc = "val"
    /\ val_idx < len_val
    /\ loss' = 0
    /\ train_losses' = <<>>
    /\ \E l \in ValLossValues :
        \/ /\ PsnrRaises(l) # "none"
           /\ Raise(PsnrRaises(l))
           /\ UNCHANGED <<avg_psnr, val_idx>>
        \/ /\ PsnrRaises(l) = "none"
           /\ avg_psnr' = FAdd(avg_psnr, Psnr(l))
           /\ val_idx' = val_idx + 1
           /\ UNCHANGED <<pc, error>>
    /\ UNCHANGED <<config, epoch, iteration, epoch_loss, grad, params, adam_step,
                   scaler, ckpt_vars, reported_loss, top_metric, top_epoch,
                   best_writes, file_writes, calls>>

\* line 153: print the mean PSNR (a division by len(val_dataloader))
ReportPsnr ==
    /\ pc = "val"
    /\ val_idx = len_val
    /\ \/ /\ len_val = 0
          /\ Raise("ZeroDivisionError")
       \/ /\ len_val > 0
          /\ pc' = "save"
          /\ UNCHANGED error
    /\ UNCHANGED <<config, epoch, train_vars, eval_vars, ckpt_vars, reported_loss,
                   hist_vars>>

\* a directory with file e written (created or replaced)
Written(dir, e, content) ==
    [x \in DOMAIN dir \cup {e} |-> IF x = e THEN content ELSE dir[x]]

\* a faulty Save: the epoch file is written only when the metric improved
SaveOnlyWhenImproved ==
    /\ pc = "save"
    /\ IF FGt(avg_psnr, best_psnr)
       THEN /\ files' = Written(files, epoch, params)
            /\ file_writes' = Written(file_writes, epoch,
                                      IF epoch \in DOMAIN file_writes
                                      THEN file_writes[epoch] + 1 ELSE 1)
       ELSE UNCHANGED <<files, file_writes>>
    /\ pc' = "check_best"
    /\ UNCHANGED <<config, error, epoch, train_vars, eval_vars, best_psnr,
                   best_file, reported_loss, train_losses, top_metric,
                   top_epoch, best_writes, calls>>

\* line 156: torch.save(model.state_dict(), f"weights/model_{epoch}.pth")
Save ==
    /\ pc = "save"
    /\ files' = Written(files, epoch, params)
    /\ file_writes' = Written(file_writes, epoch,
                              IF epoch \in DOMAIN file_writes
                              THEN file_writes[epoch] + 1 ELSE 1)
    /\ pc' = "check_best"
    /\ UNCHANGED <<config, error, epoch, train_vars, eval_vars, best_psnr,
                   best_file, reported_loss, train_losses, top_metric,
                   top_epoch, best_writes, calls>>

\* line 157: if avg_psnr > best_psnr
Improved == FGt(avg_psnr, best_psnr)

\* lines 157-160: the best-snapshot policy; then the next turn of the epoch loop
CheckBest ==
    /\ pc = "check_best"
    /\ IF Improved
       THEN /\ best_psnr' = avg_psnr
            /\ best_file' = params
       ELSE UNCHANGED <<best_psnr, best_file>>
    /\ best_writes' = IF Improved THEN best_writes + 1 ELSE best_writes
    /\ IF epoch = 0 \/ Beats(Mean(avg_psnr, len_val), top_metric)
       THEN top_metric' = Mean(avg_psnr, len_val) /\ top_epoch' = epoch
       ELSE UNCHANGED <<top_metric, top_epoch>>
    /\ epoch' = epoch + 1
    /\ pc' = "epoch_head"
    /\ UNCHANGED <<config, error, train_vars, eval_vars, files, reported_loss,
                   train_losses, file_writes, calls>>

Next ==
    \/ Setup
    \/ EpochHead
    \/ TrainFetch
    \/ ZeroGrad
    \/ Forward
    \/ Backward
    \/ Step
    \/ Update
    \/ Accumulate
    \/ ReportLoss
    \/ ValBatch
    \/ ReportPsnr
    \/ Save
    \/ CheckBest

Spec == Init /\ [][Next]_vars

(* ---------------- the training pass in isolation: SpecLoss --------------- *)
\* runs of two epochs over a train split of up to MaxLossBatches batches and a
\* one-batch validation split, on a CUDA machine with --cuda or on a machine
\* without CUDA
InitLoss ==
    \E cu \in BOOLEAN, ntrain \in 1..MaxLossBatches :
        Start([epochs |-> 2, batch_size |-> 64, cuda |-> cu], cu, ntrain, 1)

SpecLoss == InitLoss /\ [][Next]_vars

(* ------------------ the GradScaler in isolation: SpecScale --------------- *)
\* The scaler of a run of any length (the default is 200 epochs of as many
\* batches as the data has): created enabled at line 106, its scale set by
\* the first scale() call, then one step and one update per iteration.
InitScale ==
    /\ Blank([epochs |-> 200, batch_size |-> 64, cuda |-> TRUE], TRUE, 1, 1)
    /\ pc = "scaler"
    /\ scaler = [NewScaler(TRUE) EXCEPT !.scale = Pow2(InitScaleExp)]
    /\ best_psnr = Num(0)

\* lines 126-136 as the scaler sees one iteration: the gradients of
\* scaler.scale(loss).backward() are finite or not, scaler.step(optimizer)
\* records found_inf, scaler.update() adjusts the scale
ScalerIteration ==
    /\ pc = "scaler"
    /\ \E g \in {"finite", "nonfinite"} :
        scaler' \in ScalerUpdate([scaler EXCEPT !.found_inf = FoundInf(scaler, g)])
    /\ UNCHANGED <<config, pc, error, epoch, iteration, epoch_loss, loss, grad,
                   params, adam_step, eval_vars, ckpt_vars, reported_loss, hist_vars>>

NextScale == ScalerIteration

SpecScale == InitScale /\ [][NextScale]_vars

(* ------------------------------- claims --------------------------------- *)
TrainPcs == {"train_fetch", "zero_grad", "forward", "backward", "step", "update",
             "accumulate"}
AfterTrainPcs == {"report_loss", "val", "save", "check_best"}
AllCalls(n) == [zero_grad |-> n, forward |-> n, backward |-> n, step |-> n,
                update |-> n, accumulate |-> n]

\* C1: the best snapshot is written in epoch e if and only if the mean
\* validation metric of epoch e is strictly greater than the mean metric of
\* every earlier epoch; the first epoch always writes it.  (Stated for
\* metrics that are numbers.)
C1_BestWrittenIffStrictlyGreater ==
    [][(pc = "check_best" /\ ~avg_psnr.nan /\ (epoch = 0 \/ ~top_metric.nan))
        => ((best_writes' = best_writes + 1)
            <=> (epoch = 0 \/ MeanGt(Mean(avg_psnr, len_val), top_metric)))]_vars

\* C2: once k epochs are completed, exactly the files model_0 .. model_{k-1}
\* have been written, each exactly once, whatever the metric was and whether
\* or not steps were skipped; the file of an epoch holds the Model Parameters
\* current when the epoch ended.
C2_EpochFilesWritten ==
    LET saved == IF pc = "check_best" THEN epoch + 1 ELSE epoch IN
    /\ DOMAIN files = 0..(saved - 1)
    /\ DOMAIN file_writes = DOMAIN files
    /\ \A e \in DOMAIN files : file_writes[e] = 1
    /\ (pc \in {"check_best", "epoch_head", "done"} /\ saved >= 1)
        => files[saved - 1] = params

\* two epochs completed, neither improved the metric, one step was skipped
C2_Witness ==
    /\ pc = "done"
    /\ epoch = 2
    /\ best_writes = 0
    /\ scaler.enabled
    /\ scaler.scale = Pow2(InitScaleExp - 1)
    /\ DOMAIN files = {0, 1}
    /\ files[0] # files[1]

\* C3: at the end of every epoch the best snapshot exists and holds the Model
\* Parameters of the end of the completed epoch with the highest mean
\* validation metric (the earliest such epoch).  (Stated for metrics that are
\* numbers.)
C3_BestHoldsTopEpoch ==
    (pc \in {"epoch_head", "done"} /\ epoch >= 1 /\ ~top_metric.nan)
        => (best_file # NoFile /\ best_file = files[top_epoch])

\* C4: in an iteration whose gradients are non-finite the optimizer step is
\* skipped and the run goes on: the step leaves the Model Parameters
\* unchanged, update() leaves a strictly smaller Loss Scale, the loss is added
\* to the epoch loss accumulator and the loop goes to the next batch.
C4_NonFiniteStepSkipped ==
    [][/\ (pc = "step" /\ grad = "nonfinite")
            => (params' = params /\ pc' = "update")
       /\ (pc = "update" /\ grad = "nonfinite")
            => (ScaleLt(GetScale(scaler)', GetScale(scaler)) /\ pc' = "accumulate")
       /\ (pc = "accumulate" /\ grad = "nonfinite")
            => (epoch_loss' = epoch_loss + loss /\ pc' = "train_fetch")]_vars

\* C5: in every reachable state the Loss Scale is strictly positive and finite,
\* for any number of iterations and any sequence of applied and skipped steps.
C5_ScalePositiveAndBounded ==
    /\ ScalePositive(GetScale(scaler))
    /\ ScaleFinite(GetScale(scaler))

\* C6: the epoch loss accumulator is zero when an epoch starts, every training
\* iteration adds its loss exactly once, and the mean training loss reported
\* is the sum of the epoch's per-batch losses divided by the number of
\* training batches.
C6_MeanTrainingLoss ==
    /\ pc \in TrainPcs =>
        /\ Len(train_losses) = iteration
        /\ epoch_loss = SumSeq(train_losses)
    /\ (pc = "train_fetch" /\ iteration = 0) => epoch_loss = 0
    /\ (pc = "val" /\ val_idx = 0) =>
        /\ Len(train_losses) = len_train
        /\ reported_loss = FormatLoss(SumSeq(train_losses), Len(train_losses))

\* the second epoch has reported 0.070000 for the losses 0.10, 0.08, 0.06, 0.04
C6_Witness ==
    /\ pc = "val"
    /\ val_idx = 0
    /\ epoch = 1
    /\ train_losses = <<10, 8, 6, 4>>
    /\ reported_loss = 70000

\* C7: a run with a valid configuration of N epochs over non-empty splits
\* never aborts, whatever the losses and the step outcomes are, and ends after
\* exactly N completed epochs.
C7_TerminatesNormally ==
    (/\ args.epochs >= 1
     /\ args.batch_size >= 1
     /\ args.cuda <=> cuda_available
     /\ len_train >= 1
     /\ len_val >= 1)
        => (pc # "crashed" /\ (pc = "done" => epoch = args.epochs))

\* C8: a run with a non-positive epoch count or batch size does no training
\* work, writes no checkpoint and does not end as a normal run.
C8_InvalidConfigRejected ==
    (args.epochs <= 0 \/ args.batch_size <= 0)
        => (/\ pc # "done"
            /\ pc \notin TrainPcs
            /\ files = EmptyDir
            /\ best_file = NoFile)

C10_PhaseOrder ==
    /\ pc \in {"val", "save", "check_best"} => iteration = len_train
    /\ pc \in {"save", "check_best"} => val_idx = len_val
    /\ pc \in TrainPcs => (DOMAIN files = 0..(epoch - 1) /\ iteration <= len_train)
    /\ pc \in {"train_fetch", "zero_grad"} => calls = AllCalls(iteration)
    /\ pc = "forward" =>
        /\ calls = [AllCalls(iteration) EXCEPT !.zero_grad = iteration + 1]
        /\ grad = "zero"
    /\ pc = "backward" =>
        calls = [AllCalls(iteration + 1) EXCEPT !.backward = iteration,
                    !.step = iteration, !.update = iteration, !.accumulate = iteration]
    /\ pc = "step" =>
        calls = [AllCalls(iteration + 1) EXCEPT !.step = iteration,
                    !.update = iteration, !.accumulate = iteration]
    /\ pc = "update" =>
        calls = [AllCalls(iteration + 1) EXCEPT !.update = iteration,
                    !.accumulate = iteration]
    /\ pc = "accumulate" =>
        calls = [AllCalls(iteration + 1) EXCEPT !.accumulate = iteration]
    /\ pc \in AfterTrainPcs => calls = AllCalls(len_train)

\* the second iteration of the second epoch has stepped and updated
C10_Witness ==
    /\ pc = "accumulate"
    /\ epoch = 1
    /\ iteration = 1
    /\ calls.step = 2
    /\ calls.update = 2
    /\ 0 \in DOMAIN files

====
